---- MODULE Spec2Model ----
(***************************************************************************)
(* Model of ImageFlowKit: the orientation corrector                        *)
(* (image_rotation_corrector.py) and the manual_check fix utility          *)
(* (fix_manual_check.py).                                                  *)
(*                                                                         *)
(* Similarity scores are represented in thousandths (0.015 is 15).         *)
(* An image is a matrix of pixels: a sequence of rows, each a sequence.    *)
(***************************************************************************)
EXTENDS Integers, Sequences, FiniteSets, TLC

\* ------------------------------------------------------------------ bounds
\* largest height and width of a source image
MaxDim == 2
\* scores range over 5 * (-MaxNeg .. MaxPos) thousandths
MaxNeg == 3
MaxPos == 4

\* largest width and height of an image handed to the splitter
MaxExtent == 5
\* number of extract_part_from_image calls made on one image
MaxCalls == 4

\* --------------------------------------------------------------- constants
\* SIMILARITY_THRESHOLD = 0.015, in thousandths
SIMILARITY_THRESHOLD == 15

\* for angle in [0, 90, 180, 270]
AngleOrder == <<0, 90, 180, 270>>

Angles == {AngleOrder[k] : k \in 1..Len(AngleOrder)}

\* values structural_similarity can return (its range is [-1, 1]; the mean
\* SSIM of anti-correlated images is negative)
Scores == {5 * k : k \in (0 - MaxNeg)..MaxPos}

\* the coarser score grid used when a whole batch is explored
BatchScores == {s \in Scores : s % SIMILARITY_THRESHOLD = 0}

\* ------------------------------------------------------------------ images
NoFile == [kind |-> "none", px |-> <<>>]

Corrupt == [kind |-> "corrupt", px |-> <<>>]

Img(m) == [kind |-> "image", px |-> m]

\* an h x w image whose pixels are pairwise distinct
Ramp(h, w) == [i \in 1..h |-> [j \in 1..w |-> (i - 1) * w + j]]

SourceImages == {Img(Ramp(h, w)) : h \in 1..MaxDim, w \in 1..MaxDim}

Height(m) == Len(m)

Width(m) == IF Len(m) = 0 THEN 0 ELSE Len(m[1])

\* cv2.rotate(src, cv2.ROTATE_90_CLOCKWISE): the left column, read bottom
\* to top, becomes the top row
ROTATE_90_CLOCKWISE(m) ==
    [i \in 1..Width(m) |-> [j \in 1..Height(m) |-> m[Height(m) + 1 - j][i]]]

\* cv2.rotate(src, cv2.ROTATE_180)
ROTATE_180(m) ==
    [i \in 1..Height(m) |-> [j \in 1..Width(m) |->
        m[Height(m) + 1 - i][Width(m) + 1 - j]]]

\* cv2.rotate(src, cv2.ROTATE_90_COUNTERCLOCKWISE): the right column, read
\* top to bottom, becomes the top row
ROTATE_90_COUNTERCLOCKWISE(m) ==
    [i \in 1..Width(m) |-> [j \in 1..Height(m) |-> m[j][Width(m) + 1 - i]]]

\* the rotation candidate find_correct_rotation scores for an angle
rotated(m, angle) ==
    IF angle = 0 THEN m
    ELSE IF angle = 90 THEN ROTATE_90_CLOCKWISE(m)
    ELSE IF angle = 180 THEN ROTATE_180(m)
    ELSE ROTATE_90_COUNTERCLOCKWISE(m)

\* PIL building blocks: Image.transpose methods
TRANSPOSE(m) == [i \in 1..Width(m) |-> [j \in 1..Height(m) |-> m[j][i]]]

FLIP_LEFT_RIGHT(m) ==
    [i \in 1..Height(m) |-> [j \in 1..Width(m) |-> m[i][Width(m) + 1 - j]]]

FLIP_TOP_BOTTOM(m) ==
    [i \in 1..Height(m) |-> [j \in 1..Width(m) |-> m[Height(m) + 1 - i][j]]]

\* Image.rotate(angle, expand=True) for a multiple of 90: PIL rotates
\* counter-clockwise, by a transposition of the pixel grid
PIL_rotate(m, angle) ==
    IF angle % 360 = 0 THEN m
    ELSE IF angle % 360 = 180 THEN FLIP_TOP_BOTTOM(FLIP_LEFT_RIGHT(m))
    ELSE IF angle % 360 = 90 THEN FLIP_TOP_BOTTOM(TRANSPOSE(m))
    ELSE FLIP_LEFT_RIGHT(TRANSPOSE(m))

\* pil_angle = 360 - angle if angle != 0 else 0
pil_angle(angle) == IF angle # 0 THEN 360 - angle ELSE 0

\* ------------------------------------------------- find_correct_rotation
\* imread_chinese succeeds on a readable image and raises otherwise
imread_ok(content) == content.kind = "image"

\* the loop over the four angles: keeps the first score strictly greater
\* than the running best, which starts at 0
RECURSIVE ScanBest(_, _, _, _)
ScanBest(scores, k, best_similarity, best_angle) ==
    IF k > Len(AngleOrder)
    THEN [best_angle |-> best_angle, best_similarity |-> best_similarity]
    ELSE IF scores[AngleOrder[k]] > best_similarity
         THEN ScanBest(scores, k + 1, scores[AngleOrder[k]], AngleOrder[k])
         ELSE ScanBest(scores, k + 1, best_similarity, best_angle)

\* insert x into a descending sequence
RECURSIVE InsertDesc(_, _)
InsertDesc(x, s) ==
    IF s = <<>> THEN <<x>>
    ELSE IF x >= Head(s) THEN <<x>> \o s
    ELSE <<Head(s)>> \o InsertDesc(x, Tail(s))

\* sorted(similarity_scores.values(), reverse=True)
RECURSIVE SortedDescFrom(_, _)
SortedDescFrom(scores, k) ==
    IF k > Len(AngleOrder) THEN <<>>
    ELSE InsertDesc(scores[AngleOrder[k]], SortedDescFrom(scores, k + 1))

sorted_similarities(scores) == SortedDescFrom(scores, 1)

\* a second best taken among the values below the top one
second_best_similarity_distinct(scores) ==
    IF \E k \in 1..Len(sorted_similarities(scores)) :
          sorted_similarities(scores)[k] < sorted_similarities(scores)[1]
    THEN sorted_similarities(scores)[
            CHOOSE k \in 1..Len(sorted_similarities(scores)) :
              /\ sorted_similarities(scores)[k] < sorted_similarities(scores)[1]
              /\ \A j \in 1..(k - 1) :
                    sorted_similarities(scores)[j] = sorted_similarities(scores)[1]]
    ELSE 0

second_best_similarity(scores) ==
    IF Len(sorted_similarities(scores)) > 1
    THEN sorted_similarities(scores)[2]
    ELSE 0

similarity_diff(scores) ==
    ScanBest(scores, 1, 0, 0).best_similarity - second_best_similarity(scores)

\* a comparison that also flags a margin equal to the threshold
needs_manual_check_inclusive(diff) == diff <= SIMILARITY_THRESHOLD

needs_manual_check(diff) == diff < SIMILARITY_THRESHOLD

\* the empty score map of the failure return
EmptyScores == [a \in {} |-> 0]

\* the returned tuple, with the local similarity_diff alongside
find_correct_rotation(content, scores) ==
    IF ~imread_ok(content)
    THEN [best_angle |-> 0, best_similarity |-> 0,
          similarity_scores |-> EmptyScores, similarity_diff |-> 0,
          needs_manual_check |-> FALSE]
    ELSE [best_angle |-> ScanBest(scores, 1, 0, 0).best_angle,
          best_similarity |-> ScanBest(scores, 1, 0, 0).best_similarity,
          similarity_scores |-> scores,
          similarity_diff |-> similarity_diff(scores),
          needs_manual_check |-> needs_manual_check(similarity_diff(scores))]

\* the value of the decision variable before any call
NoDecision ==
    [best_angle |-> 0, best_similarity |-> 0,
     similarity_scores |-> EmptyScores, similarity_diff |-> 0,
     needs_manual_check |-> FALSE]

\* ------------------------------------------------------------- file system
Dirs == {"input", "output", "input/manual_check", "output/manual_check"}

\* Path(output_folder) / "manual_check"
manual_check_path(d) ==
    IF d = "input" THEN "input/manual_check" ELSE "output/manual_check"

Names == {"a.png", "b.jpg", "notes.txt"}

suffix(n) ==
    IF n = "a.png" THEN "png" ELSE IF n = "b.jpg" THEN "jpg" ELSE "txt"

\* all orderings of a finite set, as sequences
Orderings(S) ==
    {q \in [1..Cardinality(S) -> S] : \A x \in S : \E k \in DOMAIN q : q[k] = x}

\* folder.glob("*." + ext): the matching names, in an order the OS chooses
glob(files, folder, ext) ==
    Orderings({n \in Names : files[<<folder, n>>].kind # "none" /\ suffix(n) = ext})

\* list(glob("*.png")) + list(glob("*.jpg")) + list(glob("*.jpeg"))
image_file_lists(files, folder) ==
    {p \o j \o e : p \in glob(files, folder, "png"),
                   j \in glob(files, folder, "jpg"),
                   e \in glob(files, folder, "jpeg")}

VARIABLES pc, input_folder, output_folder, reference_ok, dirs, fs, fs0,
          image_files, idx, corrected_count, already_correct_count,
          failed_count, manual_check_count, last, decisions, log, arg, split

vars == <<pc, input_folder, output_folder, reference_ok, dirs, fs, fs0,
          image_files, idx, corrected_count, already_correct_count,
          failed_count, manual_check_count, last, decisions, log, arg,
          split>>

counters == <<corrected_count, already_correct_count, failed_count,
              manual_check_count>>

params == <<input_folder, output_folder, reference_ok, fs0, arg, split>>

NoArg == [content |-> NoFile, scores |-> EmptyScores]

\* the splitter's state when the splitter is not the program running
NoSplit == [width |-> 0, height |-> 0, direction |-> "horizontal",
            calls |-> <<>>, output |-> [kind |-> "none", size |-> <<>>]]

\* what a file of the scanned folder can hold
FileContents == {NoFile, Corrupt} \cup SourceImages

\* the second file is absent, unreadable, or one non-square image
SecondFileContents == {NoFile, Corrupt, Img(Ramp(1, MaxDim))}

\* a folder tree holding a.png, b.jpg and notes.txt (or not) in one folder
FolderWith(folder, a, b, t) ==
    [p \in Dirs \X Names |->
        IF p[1] # folder THEN NoFile
        ELSE IF p[2] = "a.png" THEN a
        ELSE IF p[2] = "b.jpg" THEN b
        ELSE t]

\* ------------------------------------------- batch_correct_with_template
InitBatch ==
    /\ pc = "start"
    /\ \E io \in {<<"input", "output">>, <<"input", "input">>,
                  <<"output/manual_check", "output">>} :
          /\ input_folder = io[1]
          /\ output_folder = io[2]
    /\ reference_ok \in BOOLEAN
    /\ dirs \in {{"input", "output", "output/manual_check"},
                 IF input_folder = "input" THEN {"input"}
                 ELSE {"output", "output/manual_check"}}
    /\ \E a \in FileContents, b \in SecondFileContents, t \in {NoFile, Corrupt} :
          fs = FolderWith(input_folder, a, b, t)
    /\ fs0 = fs
    /\ image_files = <<>>
    /\ idx = 0
    /\ corrected_count = 0
    /\ already_correct_count = 0
    /\ failed_count = 0
    /\ manual_check_count = 0
    /\ last = NoDecision
    /\ decisions = <<>>
    /\ log = <<>>
    /\ arg = NoArg
    /\ split = NoSplit

\* lines 145-184: create the folders, load the reference, list the images
Start ==
    /\ pc = "start"
    /\ dirs' = dirs \cup {output_folder, manual_check_path(output_folder)}
    /\ \E files \in image_file_lists(fs, input_folder) :
          /\ image_files' = IF reference_ok THEN files ELSE <<>>
          /\ pc' = IF reference_ok /\ files # <<>> THEN "loop" ELSE "returned"
    /\ idx' = 0
    /\ corrected_count' = 0
    /\ already_correct_count' = 0
    /\ failed_count' = 0
    /\ manual_check_count' = 0
    /\ UNCHANGED <<params, fs, last, decisions, log>>

\* a routing that ignores the manual-review flag
output_dir_root_only(flagged) == output_folder

\* a routing that saves next to the source
output_dir_in_place(flagged) == input_folder

\* the folder the loop body saves into
output_dir(flagged) ==
    IF flagged THEN manual_check_path(output_folder) ELSE output_folder

\* img.rotate(pil_angle, expand=True) if angle != 0 else img
img_rotated(content, angle) ==
    IF angle # 0 THEN Img(PIL_rotate(content.px, pil_angle(angle))) ELSE content

\* lines 187-249: one iteration of the loop; the summary follows the last
ProcessFile ==
    /\ pc = "loop"
    /\ idx < Len(image_files)
    /\ \E scores \in [Angles -> BatchScores] :
        LET img_file == image_files[idx + 1]
            content == fs[<<input_folder, img_file>>]
        IN \E r \in {find_correct_rotation(content, scores)} :
            /\ last' = r
            /\ IF DOMAIN r.similarity_scores = {}
               THEN \* scores[deg] raises KeyError, nothing catches it
                    /\ pc' = "aborted"
                    /\ UNCHANGED <<idx, counters, fs, decisions, log>>
               ELSE /\ corrected_count' =
                          IF r.best_angle # 0 THEN corrected_count + 1
                          ELSE corrected_count
                    /\ already_correct_count' =
                          IF r.best_angle # 0 THEN already_correct_count
                          ELSE already_correct_count + 1
                    /\ manual_check_count' =
                          IF r.needs_manual_check THEN manual_check_count + 1
                          ELSE manual_check_count
                    /\ failed_count' = failed_count
                    /\ fs' = [fs EXCEPT
                                ![<<output_dir(r.needs_manual_check), img_file>>] =
                                    img_rotated(content, r.best_angle)]
                    /\ log' = Append(log,
                                [folder |-> output_dir(r.needs_manual_check),
                                 name |-> img_file,
                                 content |-> img_rotated(content, r.best_angle)])
                    /\ decisions' = Append(decisions,
                                [name |-> img_file, angle |-> r.best_angle,
                                 needs_manual_check |-> r.needs_manual_check])
                    /\ idx' = idx + 1
                    /\ pc' = IF idx + 1 = Len(image_files) THEN "done" ELSE "loop"
    /\ UNCHANGED <<params, dirs, image_files>>

Next == Start \/ ProcessFile

Spec == InitBatch /\ [][Next]_vars

\* ------------------------------------------------- find_correct_rotation
\* every readable or unreadable image with every score assignment
InitFCR ==
    /\ pc = "call"
    /\ arg \in [content : {Corrupt} \cup SourceImages, scores : [Angles -> Scores]]
    /\ input_folder = "input"
    /\ output_folder = "output"
    /\ reference_ok = TRUE
    /\ dirs = {"input"}
    /\ fs = FolderWith("input", NoFile, NoFile, NoFile)
    /\ fs0 = fs
    /\ image_files = <<>>
    /\ idx = 0
    /\ corrected_count = 0
    /\ already_correct_count = 0
    /\ failed_count = 0
    /\ manual_check_count = 0
    /\ last = NoDecision
    /\ decisions = <<>>
    /\ log = <<>>
    /\ split = NoSplit

\* lines 81-133
FindCorrectRotation ==
    /\ pc = "call"
    /\ last' = find_correct_rotation(arg.content, arg.scores)
    /\ pc' = "returned"
    /\ UNCHANGED <<params, dirs, fs, image_files, idx, counters, decisions, log>>

NextFCR == FindCorrectRotation

SpecFCR == InitFCR /\ [][NextFCR]_vars

\* ------------------------------------------------------ rotate_images_180
\* a tree with images to fix in the scanned folder and, when the output
\* folder is another one, possibly an older a.png already in it
InitFix ==
    /\ pc = "fix_start"
    /\ \E io \in {<<"output/manual_check", "output">>, <<"output", "output">>,
                  <<"input", "output">>} :
          /\ input_folder = io[1]
          /\ output_folder = io[2]
    /\ dirs \in {{"input", "output", "output/manual_check"}, {"input", "output"},
                 {"input"}}
    /\ \E a \in FileContents, b \in SecondFileContents, t \in {NoFile, Corrupt},
          old \in {NoFile, Img(Ramp(1, 1))} :
          fs = [p \in Dirs \X Names |->
                  IF p[1] = input_folder /\ input_folder \in dirs
                  THEN FolderWith(input_folder, a, b, t)[p]
                  ELSE IF p[1] = output_folder /\ output_folder \in dirs
                          /\ p[2] = "a.png"
                  THEN old
                  ELSE NoFile]
    /\ fs0 = fs
    /\ reference_ok = TRUE
    /\ image_files = <<>>
    /\ idx = 0
    /\ corrected_count = 0
    /\ already_correct_count = 0
    /\ failed_count = 0
    /\ manual_check_count = 0
    /\ last = NoDecision
    /\ decisions = <<>>
    /\ log = <<>>
    /\ arg = NoArg
    /\ split = NoSplit

\* lines 19-37: check the folder, list the images
FixStart ==
    /\ pc = "fix_start"
    /\ \E files \in image_file_lists(fs, input_folder) :
          /\ image_files' = IF input_folder \in dirs THEN files ELSE <<>>
          /\ pc' = IF input_folder \in dirs /\ files # <<>>
                   THEN "fix_save" ELSE "returned"
    /\ idx' = 0
    /\ UNCHANGED <<params, dirs, fs, counters, last, decisions, log>>

\* a step that goes on to the unlink without having saved the copy
FixSave_unsaved ==
    /\ pc = "fix_save"
    /\ idx < Len(image_files)
    /\ pc' = IF fs[<<input_folder, image_files[idx + 1]>>].kind # "image"
                THEN "aborted" ELSE "fix_unlink"
    /\ UNCHANGED <<params, dirs, fs, log, image_files, idx, counters, last,
                   decisions>>

\* lines 39-52: open the image, rotate it by 180 degrees, save the copy;
\* an unreadable image or a missing output folder raises
FixSave ==
    /\ pc = "fix_save"
    /\ idx < Len(image_files)
    /\ LET img_file == image_files[idx + 1]
           content == fs[<<input_folder, img_file>>]
       IN IF content.kind # "image" \/ output_folder \notin dirs
          THEN /\ pc' = "aborted"
               /\ UNCHANGED <<fs, log>>
          ELSE /\ fs' = [fs EXCEPT ![<<output_folder, img_file>>] =
                                      Img(PIL_rotate(content.px, 180))]
               /\ log' = Append(log, [folder |-> output_folder,
                                      name |-> img_file,
                                      content |-> Img(PIL_rotate(content.px, 180))])
               /\ pc' = "fix_unlink"
    /\ UNCHANGED <<params, dirs, image_files, idx, counters, last, decisions>>

\* lines 54-65: img_file.unlink(), then the next image or the end
FixUnlink ==
    /\ pc = "fix_unlink"
    /\ fs' = [fs EXCEPT ![<<input_folder, image_files[idx + 1]>>] = NoFile]
    /\ idx' = idx + 1
    /\ pc' = IF idx + 1 = Len(image_files) THEN "done" ELSE "fix_save"
    /\ UNCHANGED <<params, dirs, image_files, counters, last, decisions, log>>

NextFix == FixStart \/ FixSave \/ FixUnlink

SpecFix == InitFix /\ [][NextFix]_vars

\* ------------------------------------------- extract_part_from_image
\* the part_index values a caller passes: 1, 2, 3 and one on either side
PartIndexes == 0..4

Directions == {"horizontal", "vertical"}

\* a crop box that gives the third part the same width as the others
crop_box_equal_thirds(width, height, direction, part_index) ==
    IF direction = "horizontal"
    THEN <<(part_index - 1) * (width \div 3), 0,
           part_index * (width \div 3), height>>
    ELSE <<0, (part_index - 1) * (height \div 3),
           width, part_index * (height \div 3)>>

\* lines 49-70: the box (left, upper, right, lower) handed to image.crop
crop_box(width, height, direction, part_index) ==
    IF direction = "horizontal"
    THEN <<(part_index - 1) * (width \div 3), 0,
           IF part_index - 1 < 2 THEN part_index * (width \div 3) ELSE width,
           height>>
    ELSE <<0, (part_index - 1) * (height \div 3),
           width,
           IF part_index - 1 < 2 THEN part_index * (height \div 3) ELSE height>>

\* extracted_image.size
box_size(box) == <<box[3] - box[1], box[4] - box[2]>>

\* what extracted_image.save can leave at output_file: the cropped image;
\* for an empty crop the encoder may refuse, and the file it opened is then
\* removed if it was new or left truncated
save_outcomes(output, box) ==
    IF box_size(box)[1] > 0 /\ box_size(box)[2] > 0
    THEN {[kind |-> "image", size |-> box_size(box)]}
    ELSE {[kind |-> "image", size |-> box_size(box)],
          [kind |-> "truncated", size |-> <<>>],
          IF output.kind = "none" THEN output
          ELSE [kind |-> "truncated", size |-> <<>>]}

\* an image of every size, no call made yet, no output file yet; the output
\* folder is not the folder of the image
InitSplit ==
    /\ pc = "split"
    /\ split \in [width : 1..MaxExtent, height : 1..MaxExtent,
                  direction : Directions, calls : {<<>>},
                  output : {[kind |-> "none", size |-> <<>>]}]
    /\ input_folder = "input"
    /\ output_folder = "output"
    /\ reference_ok = TRUE
    /\ dirs = {"input"}
    /\ fs = FolderWith("input", NoFile, NoFile, NoFile)
    /\ fs0 = fs
    /\ image_files = <<>>
    /\ idx = 0
    /\ corrected_count = 0
    /\ already_correct_count = 0
    /\ failed_count = 0
    /\ manual_check_count = 0
    /\ last = NoDecision
    /\ decisions = <<>>
    /\ log = <<>>
    /\ arg = NoArg

\* lines 33-79: one call; a part_index outside 1, 2, 3 raises ValueError
\* after the folder is created and the image opened, before any crop
ExtractPart ==
    /\ pc = "split"
    /\ Len(split.calls) < MaxCalls
    /\ dirs' = dirs \cup {output_folder}
    /\ \E part_index \in PartIndexes :
          IF part_index \notin {1, 2, 3}
          THEN split' = [split EXCEPT !.calls = Append(@,
                            [part_index |-> part_index, raised |-> TRUE,
                             box |-> <<>>, wrote |-> FALSE])]
          ELSE \E box \in {crop_box(split.width, split.height,
                                    split.direction, part_index)} :
               \E out \in save_outcomes(split.output, box) :
                  split' = [split EXCEPT
                              !.calls = Append(@,
                                 [part_index |-> part_index,
                                  raised |-> out.kind # "image",
                                  box |-> box, wrote |-> TRUE]),
                              !.output = out]
    /\ UNCHANGED <<pc, input_folder, output_folder, reference_ok, fs0, arg, fs,
                   image_files, idx, counters, last, decisions, log>>

NextSplit == ExtractPart

SpecSplit == InitSplit /\ [][NextSplit]_vars

\* ================================================================= claims
\* positions of image_files whose file imread_chinese cannot load
Unloadable == {k \in DOMAIN image_files :
                  ~imread_ok(fs0[<<input_folder, image_files[k]>>])}

RunEnded == pc \in {"done", "aborted"}

\* C1: a file that cannot be loaded is counted as failed and does not abort
\* the batch: the run never ends in an uncaught exception, and once the run
\* has ended over a batch with unloadable files the summary was reached,
\* the failures were counted and every other file was written.
C1_FailureIsolated ==
    /\ pc # "aborted"
    /\ (pc = "done" /\ Unloadable # {}) =>
          /\ failed_count = Cardinality(Unloadable)
          /\ \A k \in DOMAIN image_files \ Unloadable :
                \E e \in DOMAIN log : log[e].name = image_files[k]

\* C2: when the run has ended, corrected + already-correct + failed is the
\* number of files, failed is the number of unloadable files, and every
\* other file is counted once, as corrected iff its best angle is not 0.
C2_CountersSum ==
    RunEnded =>
        /\ corrected_count + already_correct_count + failed_count
              = Len(image_files)
        /\ failed_count = Cardinality(Unloadable)
        /\ corrected_count =
              Cardinality({k \in DOMAIN decisions : decisions[k].angle # 0})
        /\ already_correct_count =
              Cardinality({k \in DOMAIN decisions : decisions[k].angle = 0})
        /\ Len(decisions) = Len(image_files) - Cardinality(Unloadable)

Returned == pc = "returned" /\ DOMAIN last.similarity_scores = Angles

\* the largest value of a score map
MaxScore(scores) ==
    CHOOSE v \in {scores[a] : a \in Angles} : \A a \in Angles : scores[a] <= v

\* the first angle, in the order 0, 90, 180, 270, that holds the maximum
FirstArgMax(scores) ==
    AngleOrder[CHOOSE k \in DOMAIN AngleOrder :
        /\ scores[AngleOrder[k]] = MaxScore(scores)
        /\ \A j \in 1..(k - 1) : scores[AngleOrder[j]] # MaxScore(scores)]

\* C3: for an image that loads, the returned best score is the maximum of
\* the returned score map and the returned best angle is the first angle
\* in the order 0, 90, 180, 270 whose score is that maximum.
C3_BestIsMax ==
    Returned =>
        /\ last.best_similarity = MaxScore(last.similarity_scores)
        /\ last.best_angle = FirstArgMax(last.similarity_scores)

\* C4: needs_manual_check is true exactly when the margin is below
\* SIMILARITY_THRESHOLD; a margin equal to the threshold is not flagged.
C4_FlagIffBelowThreshold ==
    Returned =>
        /\ last.needs_manual_check <=> last.similarity_diff < SIMILARITY_THRESHOLD
        /\ last.similarity_diff = SIMILARITY_THRESHOLD => ~last.needs_manual_check

\* C4 witness: a call returned with the margin exactly at the threshold,
\* unflagged, and the scores are not all equal
C4_Witness ==
    /\ Returned
    /\ last.similarity_diff = SIMILARITY_THRESHOLD
    /\ ~last.needs_manual_check
    /\ last.best_similarity > 0

\* a score map that holds at least two different values
HasSecondDistinct(scores) == \E a \in Angles : scores[a] # MaxScore(scores)

\* the second-highest distinct value of such a score map
SecondDistinct(scores) ==
         CHOOSE v \in {scores[a] : a \in Angles} :
            /\ v < MaxScore(scores)
            /\ \A a \in Angles : scores[a] < MaxScore(scores) => scores[a] <= v

\* the second-ranked value of a score map, duplicates counted: the largest
\* value that at least two angles reach
SecondRanked(scores) ==
    CHOOSE v \in {scores[a] : a \in Angles} :
        /\ Cardinality({a \in Angles : scores[a] >= v}) >= 2
        /\ \A a \in Angles :
              Cardinality({b \in Angles : scores[b] >= scores[a]}) >= 2
                  => scores[a] <= v

Processed ==
    /\ pc \in {"loop", "done"}
    /\ log # <<>>
    /\ DOMAIN last.similarity_scores = Angles

\* C6: when all four candidates of an image get the same score, the margin
\* is 0, the image is flagged, and the batch writes it to manual_check.
C6_AllEqualFlagged ==
    (Processed /\ \A a \in Angles :
                     last.similarity_scores[a] = last.similarity_scores[0]) =>
        /\ last.similarity_diff = 0
        /\ last.needs_manual_check
        /\ log[Len(log)].folder = manual_check_path(output_folder)

\* C7: every successfully processed file has exactly one written output,
\* under its own name, in manual_check iff flagged and in the output root
\* otherwise, whatever the chosen angle.
C7_OneOutputPerFile ==
    /\ Len(log) = Len(decisions)
    /\ pc \in {"loop", "done"} => Len(decisions) = idx
    /\ \A k \in DOMAIN decisions :
          /\ decisions[k].name = image_files[k]
          /\ Cardinality({e \in DOMAIN log : log[e].name = image_files[k]}) = 1
          /\ log[k].name = image_files[k]
          /\ log[k].folder = manual_check_path(output_folder)
                <=> decisions[k].needs_manual_check
          /\ log[k].folder = output_folder
                <=> ~decisions[k].needs_manual_check
          /\ fs[<<log[k].folder, log[k].name>>] = log[k].content

\* C7 witness: a finished run of two files in which a file with angle 0
\* was written to the output root and another was written to manual_check
C7_Witness ==
    /\ pc = "done"
    /\ \E k \in DOMAIN decisions :
          /\ decisions[k].angle = 0
          /\ ~decisions[k].needs_manual_check
          /\ log[k].folder = output_folder
          /\ log[k].content = fs0[<<input_folder, log[k].name>>]
    /\ \E k \in DOMAIN decisions :
          /\ decisions[k].needs_manual_check
          /\ log[k].folder = manual_check_path(output_folder)

\* C8 as stated: for any folders, no file of the input folder is deleted
\* or changed.
C8_InputUntouched ==
    \A n \in Names : fs[<<input_folder, n>>] = fs0[<<input_folder, n>>]

\* the folders the run may create and write into
OutputDirs == {output_folder, manual_check_path(output_folder)}

\* C8 as amended: when the input folder is neither the output folder nor
\* its manual_check subfolder, no input file is deleted or changed; in
\* every case a step only creates the output folder and its manual_check
\* subfolder and only writes image files inside them.
C8_OnlyOutputWritten ==
    [][ /\ input_folder \notin OutputDirs =>
              \A n \in Names : fs'[<<input_folder, n>>] = fs[<<input_folder, n>>]
        /\ dirs \subseteq dirs'
        /\ dirs' \subseteq dirs \cup OutputDirs
        /\ \A p \in Dirs \X Names :
              fs'[p] # fs[p] => p[1] \in OutputDirs /\ fs'[p].kind = "image"
      ]_vars

\* C8 witness: a finished run with separate folders that created both
\* output folders and wrote a rotated image
C8_Witness ==
    /\ pc = "done"
    /\ input_folder \notin OutputDirs
    /\ OutputDirs \subseteq dirs
    /\ \E k \in DOMAIN decisions :
          /\ decisions[k].angle # 0
          /\ log[k].content # fs0[<<input_folder, log[k].name>>]
    /\ \A n \in Names : fs[<<input_folder, n>>] = fs0[<<input_folder, n>>]

\* C9: with manual_check and the output folder different, every listed
\* image is in at least one of the two folders at every step, is gone from
\* manual_check only once its 180-degree rotation is in the output folder
\* under the same name, and after normal completion is in the output
\* folder and no longer in manual_check.
C9_MoveKeepsImages ==
    (pc \in {"fix_save", "fix_unlink", "done", "aborted"}
        /\ input_folder # output_folder) =>
        \A k \in DOMAIN image_files :
            LET f == image_files[k]
                moved == Img(ROTATE_180(fs0[<<input_folder, f>>].px))
            IN  /\ fs[<<input_folder, f>>].kind # "none"
                      \/ fs[<<output_folder, f>>].kind # "none"
                /\ fs[<<input_folder, f>>].kind = "none"
                      => fs[<<output_folder, f>>] = moved
                /\ fs[<<input_folder, f>>].kind # "none"
                      => fs[<<input_folder, f>>] = fs0[<<input_folder, f>>]
                /\ pc = "done" =>
                      /\ fs[<<input_folder, f>>].kind = "none"
                      /\ fs[<<output_folder, f>>] = moved

\* C9 witness: a completed move of two images, one of them not symmetric
\* under a half turn, one replacing an older file of the output folder
C9_Witness ==
    /\ pc = "done"
    /\ input_folder # output_folder
    /\ Len(image_files) = 2
    /\ \E k \in DOMAIN image_files :
          /\ fs[<<output_folder, image_files[k]>>]
                # fs0[<<input_folder, image_files[k]>>]
          /\ fs0[<<output_folder, image_files[k]>>].kind = "image"

\* the saved image is the rotation candidate scored for the returned angle
SavedIsChosenCandidate ==
    Processed =>
        log[Len(log)].content.px =
            rotated(fs0[<<input_folder, log[Len(log)].name>>].px, last.best_angle)

\* C10: the saved image is the rotation candidate that was scored for the
\* chosen angle (the unrotated source for angle 0), and that candidate is
\* the best-scoring one.
C10_SavedIsBestCandidate ==
    Processed =>
        /\ log[Len(log)].content.px =
              rotated(fs0[<<input_folder, log[Len(log)].name>>].px,
                      last.best_angle)
        /\ last.similarity_scores[last.best_angle]
              = MaxScore(last.similarity_scores)

\* the extent the split runs along, and the range a box takes of it
Extent == IF split.direction = "horizontal" THEN split.width ELSE split.height

Lo(box) == IF split.direction = "horizontal" THEN box[1] ELSE box[2]

Hi(box) == IF split.direction = "horizontal" THEN box[3] ELSE box[4]

\* the calls made with a part_index of 1, 2 or 3
ValidCalls == {k \in DOMAIN split.calls : split.calls[k].part_index \in {1, 2, 3}}

\* the parts extracted so far that contain pixel position x
PartsHolding(x) ==
    {split.calls[k].part_index : k \in {j \in ValidCalls :
        Lo(split.calls[j].box) <= x /\ x < Hi(split.calls[j].box)}}

\* C11: the crop ranges of parts 1, 2, 3 are contiguous, do not overlap and
\* together cover exactly [0, extent); parts 1 and 2 span extent div 3 and
\* part 3 spans extent - 2 * (extent div 3); the box spans the whole other
\* axis; a part_index outside 1, 2, 3 raises and writes no output file.
C11_ThirdsCoverExtent ==
    /\ \A k \in ValidCalls :
          LET c == split.calls[k]
          IN  /\ 0 <= Lo(c.box) /\ Lo(c.box) <= Hi(c.box) /\ Hi(c.box) <= Extent
              /\ c.part_index \in {1, 2} => Hi(c.box) - Lo(c.box) = Extent \div 3
              /\ c.part_index = 3 =>
                    Hi(c.box) - Lo(c.box) = Extent - 2 * (Extent \div 3)
              /\ box_size(c.box) =
                    IF split.direction = "horizontal"
                    THEN <<Hi(c.box) - Lo(c.box), split.height>>
                    ELSE <<split.width, Hi(c.box) - Lo(c.box)>>
              /\ \A j \in ValidCalls :
                    split.calls[j].part_index = c.part_index + 1
                        => Lo(split.calls[j].box) = Hi(c.box)
    /\ \A x \in 0..(Extent - 1) :
          /\ Cardinality(PartsHolding(x)) <= 1
          /\ {split.calls[k].part_index : k \in ValidCalls} = {1, 2, 3}
                => Cardinality(PartsHolding(x)) = 1
    /\ \A k \in DOMAIN split.calls \ ValidCalls :
          split.calls[k].raised /\ ~split.calls[k].wrote
    /\ split.output.kind # "none" => \E k \in ValidCalls : split.calls[k].wrote

\* C11 witness: an extent that 3 does not divide, all three parts taken,
\* the third one wider than the others, and a call with a part_index
\* outside 1, 2, 3 that raised
C11_Witness ==
    /\ pc = "split"
    /\ Extent % 3 # 0
    /\ Extent >= 3
    /\ {split.calls[k].part_index : k \in ValidCalls} = {1, 2, 3}
    /\ \E k \in ValidCalls :
          /\ split.calls[k].part_index = 3
          /\ Hi(split.calls[k].box) = Extent
          /\ Hi(split.calls[k].box) - Lo(split.calls[k].box) > Extent \div 3
    /\ \E k \in DOMAIN split.calls : split.calls[k].raised /\ ~split.calls[k].wrote

====
